---- MODULE Spec2Model ----
(***************************************************************************)
(* The VideoFeed component of the dashboard, in its two source variants:   *)
(*   "capture": src/unnamed/part_000 (getUserMedia + requestAnimationFrame) *)
(*   "remote" : src/dashboard/src/components/VideoFeed.tsx (setInterval)    *)
(* One step of the model is one run-to-completion step of the browser's    *)
(* event loop: an effect, a promise continuation, a timer or animation     *)
(* callback, a DOM event handler, or the passing of wall-clock time.       *)
(***************************************************************************)
EXTENDS Integers, Sequences, FiniteSets, TLC

\* ---------------------------------------------------------------- constants
Stride == 5
MinGap == 500
IntervalMs == 100

\* ------------------------------------------------------------------- bounds
StartTime == 1000
TimeStep == 250
MaxTime == 1750
MaxFrames == 10
MaxReq == 2

\* ----------------------------------------------------------------- messages
NoError == "null"
CameraError == "Failed to access camera"
StreamError == "Failed to load video stream"
DetectionFailed == "Detection failed"
ProcessFailed == "Failed to process frame"
\* messages produced by the platform and by the service
NetworkMsg == "TypeError: Failed to fetch"
ParseMsg == "SyntaxError: Unexpected token"
Absent == "absent"
Details == {"Model not loaded"}

\* --------------------------------------------------------------- input sets
Variants == {"capture", "remote"}
\* NoSize: dimensions not known (videoWidth / naturalWidth are 0)
Sizes == {"640x480", "1280x720"}
NoSize == "0x0"
DefaultCanvasSize == "300x150"
Person == [class |-> "person", conf |-> 870]
Cup == [class |-> "cup", conf |-> 505]
DetectionLists == {<<>>, <<Person>>, <<Cup, Person>>}
Bodies ==
    {[parses |-> FALSE, detail |-> Absent, detections |-> <<>>]}
    \cup {[parses |-> TRUE, detail |-> d, detections |-> <<>>] :
              d \in Details \cup {Absent}}
    \cup {[parses |-> TRUE, detail |-> Absent, detections |-> ds] :
              ds \in DetectionLists}

VARIABLES
    variant,          \* which source file is mounted
    mounted,          \* the component is mounted
    canvasRef,        \* canvasRef.current is an element
    imgRef,           \* imgRef.current is an element
    detections,       \* useState: detections
    isProcessing,     \* useState: isProcessing
    error,            \* useState: error
    frameCountRef,    \* frameCountRef.current              (capture)
    lastDetectionRef, \* lastDetectionRef.current           (capture)
    rafPending,       \* a requestAnimationFrame(drawFrame) is scheduled
    streamRef,        \* streamRef.current is a MediaStream (capture)
    gum,              \* the getUserMedia promise           (capture)
    trackActive,      \* a track of the acquired stream is live
    metadataPending,  \* the video's loadedmetadata event is still to fire
    intervalActive,   \* the setInterval timer is registered (remote)
    nextFire,         \* the time at which the timer fires next (remote)
    imgStatus,        \* the stream <img>: pending, loaded, failed, or
                      \* recovered (loaded again after a failure)
    sourceSize,       \* videoWidth x videoHeight / naturalWidth x naturalHeight
    canvasSize,       \* canvas.width x canvas.height
    surface,          \* what the canvas shows: 0 blank, n the n-th drawn frame
    now,              \* Date.now()
    reqs,             \* the POST /detect calls issued so far, in issue order
    shownReq,         \* history: the request whose result detections holds
    loopStarted,      \* history: drawFrame has been called
    lastTick          \* history: what the latest drawFrame or timer call did

vars == <<variant, mounted, canvasRef, imgRef, detections, isProcessing, error,
          frameCountRef, lastDetectionRef, rafPending, streamRef, gum,
          trackActive, metadataPending, intervalActive, nextFire, imgStatus,
          sourceSize, canvasSize, surface, now, reqs, shownReq, loopStarted, lastTick>>

reactState == <<detections, isProcessing, error>>
captureRefs == <<frameCountRef, lastDetectionRef, rafPending, streamRef, gum,
                 trackActive, metadataPending>>
timerState == <<intervalActive, nextFire>>
history == <<shownReq, loopStarted, lastTick>>

\* ------------------------------------------------------------- the render
\* variant of RendersCanvas: both variants render a <canvas>
RendersCanvasAlways(v) == TRUE

\* The capture variant renders <img> and <canvas>; the remote variant
\* renders <img> only, so its canvasRef is never attached.
RendersCanvas(v) == v = "capture"

RendersImg(v) == TRUE

\* processFrame is reached through an effect with an empty dependency list,
\* so the processFrame that runs is the one of the first render, which closed
\* over the initial values of the state hooks.
closureIsProcessing == FALSE

closureError == NoError

\* variant of SetState: the setter writes whether or not the component is
\* still mounted
SetStateUnchecked(cur, new) == new

\* A state setter of an unmounted component is discarded by React.
SetState(cur, new) == IF mounted THEN new ELSE cur

\* lastTick before any call, and after a call that drew nothing; src and
\* canvas are the source's and the canvas's dimensions when a frame was drawn,
\* err is the error signal at the time the interval callback ran
NoTick == [drawn |-> FALSE, count |-> 0, elapsed |-> 0, attempted |-> FALSE,
           src |-> NoSize, canvas |-> NoSize, err |-> NoError]

Init ==
    /\ variant \in Variants
    /\ mounted = TRUE
    /\ canvasRef = RendersCanvas(variant)
    /\ imgRef = RendersImg(variant)
    /\ detections = <<>>
    /\ isProcessing = FALSE
    /\ error = NoError
    /\ frameCountRef = 0
    /\ lastDetectionRef = 0
    /\ rafPending = FALSE
    /\ streamRef = FALSE
    /\ gum = IF variant = "capture" THEN "pending" ELSE "none"
    /\ trackActive = FALSE
    /\ metadataPending = FALSE
    /\ intervalActive = (variant = "remote")
    /\ nextFire = IF variant = "remote" THEN StartTime + IntervalMs ELSE 0
    /\ imgStatus = IF variant = "remote" THEN "pending" ELSE "none"
    /\ sourceSize = NoSize
    /\ canvasSize = DefaultCanvasSize
    /\ surface = 0
    /\ now = StartTime
    /\ reqs = <<>>
    /\ shownReq = 0
    /\ loopStarted = FALSE
    /\ lastTick = NoTick

\* ------------------------------------------------------------ processFrame
\* st, ok: where the call is; the other fields are history: when it was
\* issued and whether an earlier call was still waiting then, how often its
\* reset ran, how it ended, whether the component was mounted then, which
\* request's result was displayed then, and what the service had answered
NewRequest(t) == [st |-> "fetch", ok |-> FALSE, issuedAt |-> t,
                  overlap |-> \E i \in 1..Len(reqs) : reqs[i].st # "done",
                  resets |-> 0, result |-> "none", live |-> TRUE, prev |-> 0,
                  cause |-> "none", detail |-> Absent, msg |-> NoError,
                  dets |-> <<>>]

Outstanding == {i \in 1..Len(reqs) : reqs[i].st # "done"}

\* variant of ProcessFrameCapture: the sample time is written before the
\* guard, so a call that returns at the guard moves it as well
ProcessFrameCaptureStampsFirst ==
    /\ lastDetectionRef' = now
    /\ IF ~canvasRef \/ closureIsProcessing
       THEN UNCHANGED <<isProcessing, reqs>>
       ELSE /\ isProcessing' = SetState(isProcessing, TRUE)
            /\ reqs' = Append(reqs, NewRequest(now))

\* part_000: processFrame up to its first await
ProcessFrameCapture ==
    IF ~canvasRef \/ closureIsProcessing
    THEN UNCHANGED <<isProcessing, lastDetectionRef, reqs>>
    ELSE /\ isProcessing' = SetState(isProcessing, TRUE)
         /\ lastDetectionRef' = now
         /\ reqs' = Append(reqs, NewRequest(now))

\* VideoFeed.tsx: processFrame up to its first await (getContext('2d') of an
\* attached canvas succeeds)
ProcessFrameRemote ==
    IF ~imgRef \/ ~canvasRef \/ closureIsProcessing \/ closureError # NoError
    THEN UNCHANGED <<isProcessing, canvasSize, surface, reqs>>
    ELSE IF sourceSize # NoSize
         THEN /\ isProcessing' = SetState(isProcessing, TRUE)
              /\ canvasSize' = sourceSize
              /\ surface' = surface + 1
              /\ reqs' = Append(reqs, NewRequest(now))
         ELSE \* setIsProcessing(true), return, finally setIsProcessing(false)
              /\ isProcessing' = SetState(isProcessing, FALSE)
              /\ UNCHANGED <<canvasSize, surface, reqs>>

\* --------------------------------------------------------------- drawFrame
\* variant of SampleDecision: a gap of exactly MinGap is enough
SampleDecisionInclusive(count, t, last) ==
    count % Stride = 0 /\ t - last >= MinGap

\* variant of SampleDecision: the stride alone decides
SampleDecisionStrideOnly(count, t, last) == count % Stride = 0

SampleDecision(count, t, last) == count % Stride = 0 /\ t - last > MinGap

WouldIssue(ready) ==
    /\ ready
    /\ SampleDecision(frameCountRef + 1, now, lastDetectionRef)
    /\ canvasRef /\ ~closureIsProcessing

\* variant of DrawFrameBody: every drawn frame moves the sample time,
\* sampled or not
DrawFrameBodyStamping(ready) ==
    /\ loopStarted' = TRUE
    /\ IF ready
       THEN /\ surface' = frameCountRef + 1
            /\ frameCountRef' = frameCountRef + 1
            /\ IF SampleDecision(frameCountRef + 1, now, lastDetectionRef)
               THEN ProcessFrameCapture
               ELSE /\ lastDetectionRef' = now
                    /\ UNCHANGED <<isProcessing, reqs>>
            /\ rafPending' = TRUE
            /\ lastTick' = [drawn |-> TRUE, count |-> frameCountRef + 1,
                            elapsed |-> now - lastDetectionRef,
                            attempted |-> SampleDecision(frameCountRef + 1, now,
                                                         lastDetectionRef),
                            src |-> sourceSize, canvas |-> canvasSize,
                            err |-> NoError]
       ELSE /\ rafPending' = FALSE
            /\ lastTick' = [NoTick EXCEPT !.count = frameCountRef]
            /\ UNCHANGED <<surface, frameCountRef, isProcessing,
                           lastDetectionRef, reqs>>

\* part_000: one call of drawFrame; ready is
\* video.readyState === video.HAVE_ENOUGH_DATA at the time of the call
DrawFrameBody(ready) ==
    /\ loopStarted' = TRUE
    /\ IF ready
       THEN /\ surface' = frameCountRef + 1
            /\ frameCountRef' = frameCountRef + 1
            /\ IF SampleDecision(frameCountRef + 1, now, lastDetectionRef)
               THEN ProcessFrameCapture
               ELSE UNCHANGED <<isProcessing, lastDetectionRef, reqs>>
            /\ rafPending' = TRUE
            /\ lastTick' = [drawn |-> TRUE, count |-> frameCountRef + 1,
                            elapsed |-> now - lastDetectionRef,
                            attempted |-> SampleDecision(frameCountRef + 1, now,
                                                         lastDetectionRef),
                            src |-> sourceSize, canvas |-> canvasSize,
                            err |-> NoError]
       ELSE /\ rafPending' = FALSE
            /\ lastTick' = [NoTick EXCEPT !.count = frameCountRef]
            /\ UNCHANGED <<surface, frameCountRef, isProcessing,
                           lastDetectionRef, reqs>>

TickAllowed(ready) ==
    /\ frameCountRef < MaxFrames
    /\ WouldIssue(ready) => Len(reqs) < MaxReq

\* the animation-frame callback
DrawFrame(ready) ==
    /\ variant = "capture"
    /\ rafPending
    /\ TickAllowed(ready)
    /\ DrawFrameBody(ready)
    /\ UNCHANGED <<variant, imgStatus, mounted, canvasRef, imgRef, detections, error,
                   streamRef, gum, trackActive, metadataPending, timerState,
                   sourceSize, canvasSize, now, shownReq>>

\* ------------------------------------------------------------- setupStream
\* part_000: the continuation of `await getUserMedia(...)`, which ends with
\* the first, direct call of drawFrame
GetUserMediaResolve(ready) ==
    /\ gum = "pending"
    /\ TickAllowed(ready)
    /\ gum' = "resolved"
    /\ streamRef' = TRUE
    /\ trackActive' = TRUE
    /\ metadataPending' = TRUE
    /\ DrawFrameBody(ready)
    /\ UNCHANGED <<variant, imgStatus, mounted, canvasRef, imgRef, detections, error,
                   timerState, sourceSize, canvasSize, now, shownReq>>

\* variant of GetUserMediaReject: the draw loop is started although no
\* stream was obtained
GetUserMediaRejectStartsLoop ==
    /\ gum = "pending"
    /\ gum' = "rejected"
    /\ error' = SetState(error, CameraError)
    /\ rafPending' = TRUE
    /\ UNCHANGED <<variant, imgStatus, mounted, canvasRef, imgRef, detections,
                   isProcessing, frameCountRef, lastDetectionRef,
                   streamRef, trackActive, metadataPending, timerState,
                   sourceSize, canvasSize, surface, now, reqs, history>>

\* part_000: the catch block of setupStream
GetUserMediaReject ==
    /\ gum = "pending"
    /\ gum' = "rejected"
    /\ error' = SetState(error, CameraError)
    /\ UNCHANGED <<variant, imgStatus, mounted, canvasRef, imgRef, detections,
                   isProcessing, frameCountRef, lastDetectionRef, rafPending,
                   streamRef, trackActive, metadataPending, timerState,
                   sourceSize, canvasSize, surface, now, reqs, history>>

\* part_000: updateCanvasSize, the listener of the video's loadedmetadata
\* event; assigning canvas.width resets the bitmap
LoadedMetadata(s) ==
    /\ metadataPending
    /\ metadataPending' = FALSE
    /\ sourceSize' = s
    /\ canvasSize' = s
    /\ surface' = 0
    /\ UNCHANGED <<variant, imgStatus, mounted, canvasRef, imgRef, reactState,
                   frameCountRef, lastDetectionRef, rafPending, streamRef, gum,
                   trackActive, timerState, now, reqs, history>>

\* the negotiated resolution of the capture track changes while it is
\* live (the video's resize event, which has no listener)
VideoResize(s) ==
    /\ variant = "capture"
    /\ gum = "resolved"
    /\ ~metadataPending
    /\ trackActive
    /\ s # sourceSize
    /\ sourceSize' = s
    /\ UNCHANGED <<variant, imgStatus, mounted, canvasRef, imgRef, reactState,
                   captureRefs, timerState, canvasSize, surface, now, reqs,
                   history>>

\* ------------------------------------------------------------ the interval
\* VideoFeed.tsx: the setInterval callback
IntervalTick ==
    /\ variant = "remote"
    /\ intervalActive
    /\ now >= nextFire
    /\ nextFire' = nextFire + IntervalMs
    /\ ProcessFrameRemote
    /\ lastTick' = [NoTick EXCEPT !.err = error]
    /\ UNCHANGED <<variant, imgStatus, mounted, canvasRef, imgRef, detections, error,
                   captureRefs, intervalActive, sourceSize, now, shownReq,
                   loopStarted>>

\* variant of ImgLoad: a load does not touch the error
ImgLoadKeepsError(s) ==
    /\ variant = "remote"
    /\ mounted
    /\ sourceSize' = s
    /\ imgStatus' = IF imgStatus \in {"failed", "recovered"} THEN "recovered"
                    ELSE "loaded"
    /\ UNCHANGED <<variant, mounted, canvasRef, imgRef, reactState,
                   captureRefs, timerState, canvasSize, surface, now, reqs,
                   history>>

\* VideoFeed.tsx: onLoad of the stream <img>
ImgLoad(s) ==
    /\ variant = "remote"
    /\ mounted
    /\ sourceSize' = s
    /\ imgStatus' = IF imgStatus \in {"failed", "recovered"} THEN "recovered"
                    ELSE "loaded"
    /\ error' = SetState(error, NoError)
    /\ UNCHANGED <<variant, mounted, canvasRef, imgRef, detections,
                   isProcessing, captureRefs, timerState, canvasSize, surface,
                   now, reqs, history>>

\* VideoFeed.tsx: onError of the stream <img>
ImgError ==
    /\ variant = "remote"
    /\ mounted
    /\ imgStatus' = "failed"
    /\ error' = SetState(error, StreamError)
    /\ UNCHANGED <<variant, mounted, canvasRef, imgRef, detections,
                   isProcessing, captureRefs, timerState, sourceSize,
                   canvasSize, surface, now, reqs, history>>

\* ------------------------------------------------- completion of a request
\* variant of Finally: the reset is the last statement of the try block, so
\* a call that throws leaves the flag set
FinallyInTry(i, res) ==
    /\ isProcessing' = IF res.result = "success"
                       THEN SetState(isProcessing, FALSE)
                       ELSE isProcessing
    /\ reqs' = [reqs EXCEPT ![i].st = "done",
                            ![i].resets = IF res.result = "success" THEN @ + 1
                                          ELSE @,
                            ![i].result = res.result, ![i].live = mounted,
                            ![i].prev = shownReq, ![i].cause = res.cause,
                            ![i].detail = res.detail, ![i].msg = res.msg,
                            ![i].dets = res.dets]

\* the finally block of processFrame, which ends the call
Finally(i, res) ==
    /\ isProcessing' = SetState(isProcessing, FALSE)
    /\ reqs' = [reqs EXCEPT ![i].st = "done", ![i].resets = @ + 1,
                            ![i].result = res.result, ![i].live = mounted,
                            ![i].prev = shownReq, ![i].cause = res.cause,
                            ![i].detail = res.detail, ![i].msg = res.msg,
                            ![i].dets = res.dets]

\* the message the catch block passes to setError
ErrorMessage(ok, body) ==
    IF ~body.parses THEN ParseMsg
    ELSE IF ~ok THEN (IF body.detail # Absent THEN body.detail
                      ELSE DetectionFailed)
    ELSE ProcessFailed

\* how a call ended, for the history fields of its request
Succeeded(ds) == [result |-> "success", cause |-> "none", detail |-> Absent,
                  msg |-> NoError, dets |-> ds]

Failed(cause, detail, msg) == [result |-> "failure", cause |-> cause,
                               detail |-> detail, msg |-> msg, dets |-> <<>>]

\* what made response.json() or the throw statement fail
Cause(ok, body) ==
    IF ~body.parses THEN "unparsable"
    ELSE IF body.detail # Absent THEN "detail" ELSE "nodetail"

\* variant of Catch: a failure blanks the displayed detections
CatchClearing(i, cause, detail, msg) ==
    /\ error' = SetState(error, msg)
    /\ detections' = SetState(detections, <<>>)
    /\ Finally(i, Failed(cause, detail, msg))
    /\ UNCHANGED shownReq

\* variant of Catch: an error that is already set is kept
CatchKeepsFirst(i, cause, detail, msg) ==
    /\ error' = IF error = NoError THEN SetState(error, msg) ELSE error
    /\ Finally(i, Failed(cause, detail, msg))
    /\ UNCHANGED <<detections, shownReq>>

\* variant of Catch: a failed request is issued again at once
CatchRetry(i, cause, detail, msg) ==
    /\ error' = SetState(error, msg)
    /\ isProcessing' = isProcessing
    /\ reqs' = LET ended == [reqs EXCEPT ![i].st = "done", ![i].resets = @ + 1,
                                         ![i].result = "failure",
                                         ![i].live = mounted,
                                         ![i].prev = shownReq,
                                         ![i].cause = cause,
                                         ![i].detail = detail, ![i].msg = msg]
               IN  IF Len(reqs) < MaxReq THEN Append(ended, NewRequest(now))
                   ELSE ended
    /\ UNCHANGED <<detections, shownReq>>

\* the catch block of processFrame, followed by the finally block
Catch(i, cause, detail, msg) ==
    /\ error' = SetState(error, msg)
    /\ Finally(i, Failed(cause, detail, msg))
    /\ UNCHANGED <<detections, shownReq>>

\* variant of Success: the new detections are added to the displayed ones
SuccessMerging(i, body) ==
    /\ detections' = SetState(detections, detections \o body.detections)
    /\ shownReq' = IF mounted THEN i ELSE shownReq
    /\ Finally(i, Succeeded(body.detections))
    /\ UNCHANGED error

\* the end of the try block of processFrame, followed by the finally block
Success(i, body) ==
    /\ detections' = SetState(detections, body.detections)
    /\ shownReq' = IF mounted THEN i ELSE shownReq
    /\ Finally(i, Succeeded(body.detections))
    /\ UNCHANGED error

\* the promise returned by fetch settles: a response arrives (2xx or not), or
\* the call rejects and the catch and finally blocks run
FetchSettle(i, outcome) ==
    /\ i \in 1..Len(reqs)
    /\ reqs[i].st = "fetch"
    /\ IF outcome = "reject"
       THEN Catch(i, "network", Absent, NetworkMsg)
       ELSE /\ reqs' = [reqs EXCEPT ![i].st = "json",
                                    ![i].ok = (outcome = "ok")]
            /\ UNCHANGED <<error, isProcessing, detections, shownReq>>
    /\ UNCHANGED <<variant, imgStatus, mounted, canvasRef, imgRef, captureRefs,
                   timerState, sourceSize, canvasSize, surface, now,
                   loopStarted, lastTick>>

\* the promise returned by response.json() settles; the rest of the try
\* block, or the catch block, and the finally block run
JsonSettle(i, body) ==
    /\ i \in 1..Len(reqs)
    /\ reqs[i].st = "json"
    /\ IF reqs[i].ok /\ body.parses
       THEN Success(i, body)
       ELSE Catch(i, Cause(reqs[i].ok, body),
                  IF body.parses THEN body.detail ELSE Absent,
                  ErrorMessage(reqs[i].ok, body))
    /\ UNCHANGED <<variant, imgStatus, mounted, canvasRef, imgRef, captureRefs,
                   timerState, sourceSize, canvasSize, surface, now,
                   loopStarted, lastTick>>

\* ------------------------------------------------------------------ render
\* variant of Round: the percentage is truncated
RoundDown(conf) == conf \div 10

\* Math.round(det.confidence * 100), the confidence being held in thousandths
Round(conf) == (conf + 5) \div 10

\* the text of one label: {det.class}: {Math.round(det.confidence * 100)}%
Label(det) == det.class \o ": " \o ToString(Round(det.conf)) \o "%"

\* the labels the render shows for a detections state: nothing when it is
\* empty, else one <div> per entry, in order
Labels(ds) == IF Len(ds) > 0 THEN [k \in 1..Len(ds) |-> Label(ds[k])] ELSE <<>>

\* ---------------------------------------------------------------- teardown
\* unmount: React detaches the refs and runs the cleanup the effect returned
Unmount ==
    /\ mounted
    /\ mounted' = FALSE
    /\ canvasRef' = FALSE
    /\ imgRef' = FALSE
    /\ trackActive' = IF variant = "capture" /\ streamRef THEN FALSE
                      ELSE trackActive
    /\ intervalActive' = FALSE
    /\ UNCHANGED <<variant, imgStatus, reactState, frameCountRef, lastDetectionRef,
                   rafPending, streamRef, gum, metadataPending, nextFire,
                   sourceSize, canvasSize, surface, now, reqs, history>>

\* ------------------------------------------------------------------- clock
Advance ==
    /\ now < MaxTime
    /\ now' = now + TimeStep
    /\ UNCHANGED <<variant, imgStatus, mounted, canvasRef, imgRef, reactState,
                   captureRefs, timerState, sourceSize, canvasSize, surface,
                   reqs, history>>

Next ==
    \/ \E ready \in BOOLEAN : GetUserMediaResolve(ready)
    \/ GetUserMediaReject
    \/ \E s \in Sizes : LoadedMetadata(s)
    \/ \E s \in Sizes : VideoResize(s)
    \/ \E ready \in BOOLEAN : DrawFrame(ready)
    \/ IntervalTick
    \/ \E s \in Sizes : ImgLoad(s)
    \/ ImgError
    \/ \E i \in 1..MaxReq, o \in {"ok", "notok", "reject"} : FetchSettle(i, o)
    \/ \E i \in 1..MaxReq, b \in Bodies : JsonSettle(i, b)
    \/ Unmount
    \/ Advance

Spec == Init /\ [][Next]_vars

TypeOK ==
    /\ variant \in Variants
    /\ mounted \in BOOLEAN
    /\ isProcessing \in BOOLEAN
    /\ frameCountRef \in 0..MaxFrames
    /\ Len(reqs) <= MaxReq

\* ==================================================================== claims

\* C1: at most one inference request is outstanding at any time.
C1_AtMostOneOutstanding == Cardinality(Outstanding) <= 1

\* C2: while the component is mounted, isProcessing is true exactly when a
\* request has been issued and has not yet resolved.
C2_FlagIffOutstanding == mounted => (isProcessing <=> Outstanding # {})

\* C3: every call of processFrame that set the flag resets it exactly once,
\* on every exit path: a call that has ended has run its reset once, a call
\* that is still waiting has not run it, and once every call of a mounted
\* component has ended the flag is false.
C3_ResetOncePerCall ==
    /\ \A i \in 1..Len(reqs) :
           reqs[i].resets = IF reqs[i].st = "done" THEN 1 ELSE 0
    /\ (mounted /\ Outstanding = {}) => ~isProcessing

C3_Witness ==
    /\ mounted
    /\ ~isProcessing
    /\ \E i \in 1..Len(reqs) : reqs[i].st = "done" /\ reqs[i].result = "failure"
    /\ \E i \in 1..Len(reqs) : reqs[i].st = "done" /\ reqs[i].result = "success"

\* a step in which a request completes: its fetch promise or its body settles
Completion ==
    \/ \E i \in 1..MaxReq, o \in {"ok", "notok", "reject"} : FetchSettle(i, o)
    \/ \E i \in 1..MaxReq, b \in Bodies : JsonSettle(i, b)

\* C4: after unmount, the completion of a pending request changes neither
\* detections, nor error, nor the in-flight flag, nor the drawing surface.
C4_CompletionAfterUnmountIsNoOp ==
    [][(~mounted /\ Completion) =>
           UNCHANGED <<detections, error, isProcessing, surface, canvasSize>>]_vars

C4_Witness ==
    /\ ~mounted
    /\ \E i \in 1..Len(reqs) :
           reqs[i].st = "done" /\ ~reqs[i].live /\ reqs[i].result = "success"
    /\ \E i \in 1..Len(reqs) :
           reqs[i].st = "done" /\ ~reqs[i].live /\ reqs[i].result = "failure"

\* C5: after teardown the frame source is released: no capture track is
\* live and the interval timer is cancelled.
C5_TeardownReleasesSource == ~mounted => (~trackActive /\ ~intervalActive)

\* C6: after teardown no further display tick runs: no frame is drawn and
\* no request is issued.
C6_NoTickAfterTeardown ==
    [][~mounted => (frameCountRef' = frameCountRef
                    /\ Len(reqs') = Len(reqs))]_vars

\* C7: in the capture variant a drawn frame triggers an inference attempt
\* iff the incremented frame counter is a multiple of the stride and more
\* than the minimum gap has elapsed since the last sample; a tick that draws
\* nothing attempts nothing.
C7_AttemptIffEligible ==
    lastTick.attempted <=>
        (lastTick.drawn /\ lastTick.count % Stride = 0
                        /\ lastTick.elapsed > MinGap)

C7_Witness ==
    /\ lastTick.drawn /\ lastTick.attempted
    /\ lastTick.count = 2 * Stride
    /\ Len(reqs) = 2

\* C8: any two issued requests are issued more than the minimum gap apart,
\* so a burst of ticks within 100 ms issues at most one request.
C8_RequestsMoreThanGapApart ==
    \A i, j \in 1..Len(reqs) :
        i < j => reqs[j].issuedAt - reqs[i].issuedAt > MinGap

\* a burst of drawn frames within one instant, two of them multiples of the
\* stride, has issued one request
C8_Witness ==
    /\ frameCountRef >= 2 * Stride
    /\ now = StartTime
    /\ Len(reqs) = 1

\* C9: the display loop re-schedules itself on every tick: once drawFrame has
\* been called, a further call is pending for as long as the component is
\* mounted.
C9_LoopAlwaysRescheduled ==
    (variant = "capture" /\ mounted /\ loopStarted) => rafPending

\* C10: the displayed detections are never replaced by the result of a
\* request issued earlier than the one whose result is displayed.
C10_AppliedInIssueOrder == [][shownReq' >= shownReq]_vars

\* request i ends in this step, with the given result
Ends(i, res) ==
    /\ i \in 1..Len(reqs)
    /\ reqs[i].st # "done"
    /\ reqs'[i].st = "done"
    /\ reqs'[i].result = res

\* C11: when an inference request fails (non-2xx status, network error or
\* unparsable body) the failure path sets the error and leaves detections
\* as they were.
C11_FailureKeepsDetections ==
    [][\A i \in 1..MaxReq :
           Ends(i, "failure") =>
               /\ detections' = detections
               /\ mounted => error' # NoError]_vars

\* a request failed while the result of an earlier success was displayed,
\* and that result is still displayed
C11_Witness ==
    /\ mounted
    /\ detections # <<>>
    /\ error # NoError
    /\ \E i \in 1..Len(reqs) :
           /\ reqs[i].st = "done" /\ reqs[i].result = "failure"
           /\ reqs[i].prev # 0 /\ reqs[i].prev = shownReq

\* C12: an inference error is cleared by the next successful inference
\* response: a request that completes with a 2xx response and a parsable
\* body leaves the error signal empty.
C12_SuccessClearsError ==
    [][\A i \in 1..MaxReq :
           (mounted /\ Ends(i, "success")) => error' = NoError]_vars

\* C13: in the remote-stream variant a failed load of the image resource
\* sets the error to the stream-failure message, and a successful load
\* after it clears the error.
C13_StreamErrorRecoverable ==
    [][mounted =>
           /\ (imgStatus # "failed" /\ imgStatus' = "failed")
                  => error' = StreamError
           /\ (imgStatus = "failed" /\ imgStatus' = "recovered")
                  => (error = StreamError /\ error' = NoError)]_vars

C13_Witness ==
    /\ variant = "remote"
    /\ mounted
    /\ imgStatus = "recovered"
    /\ error = NoError

\* C14: on a non-2xx response the error message is the body's detail field
\* verbatim, and "Detection failed" when the field is absent or the body
\* cannot be parsed.
C14_DetailOrGenericMessage ==
    [][\A i \in 1..MaxReq :
           (mounted /\ Ends(i, "failure") /\ reqs[i].st = "json"
                    /\ ~reqs[i].ok)
               => error' = IF reqs'[i].cause = "detail" THEN reqs'[i].detail
                           ELSE DetectionFailed]_vars

\* C15: every failure (capture denied, stream load failure, HTTP error,
\* network error, body decode error) ends in the one error signal, which
\* then holds the message of that failure, whatever it held before.
C15_LatestFailureInErrorSignal ==
    [][mounted =>
           /\ (gum = "pending" /\ gum' = "rejected") => error' = CameraError
           /\ (imgStatus # "failed" /\ imgStatus' = "failed")
                  => error' = StreamError
           /\ \A i \in 1..MaxReq :
                  Ends(i, "failure")
                      => (error' = reqs'[i].msg /\ reqs'[i].msg # NoError)]_vars

\* two requests failed one after the other with different messages, and the
\* signal holds the later one
C15_Witness ==
    /\ mounted
    /\ Len(reqs) = 2
    /\ reqs[1].result = "failure" /\ reqs[2].result = "failure"
    /\ ~reqs[2].overlap
    /\ reqs[1].msg # reqs[2].msg
    /\ error = reqs[2].msg

\* C16: a capture failure is fatal: once getUserMedia has been rejected the
\* error is the capture-failure message, no frame is drawn, the frame counter
\* does not advance and no inference request is issued.
C16_CaptureFailureIsFatal ==
    gum = "rejected" =>
        /\ mounted => error = CameraError
        /\ frameCountRef = 0
        /\ surface = 0
        /\ ~rafPending /\ ~loopStarted
        /\ reqs = <<>>
        /\ ~trackActive

C16_Witness ==
    /\ gum = "rejected"
    /\ mounted
    /\ error = CameraError
    /\ now = StartTime + 2 * TimeStep

\* C17: the pipeline never retries by itself: a request is issued only in a
\* step that draws a frame whose count is a multiple of the stride, more than
\* the minimum gap after the last sample, one request per such tick; the step
\* in which a request fails issues none.
C17_IssuedOnlyByEligibleTick ==
    [][/\ Len(reqs') > Len(reqs)
           => /\ Len(reqs') = Len(reqs) + 1
              /\ frameCountRef' = frameCountRef + 1
              /\ frameCountRef' % Stride = 0
              /\ now - lastDetectionRef > MinGap
       /\ \A i \in 1..MaxReq :
              Ends(i, "failure") => Len(reqs') = Len(reqs)]_vars

\* a request failed, and the next one was issued after that by a later tick
C17_Witness ==
    /\ Len(reqs) = 2
    /\ reqs[1].result = "failure"
    /\ ~reqs[2].overlap
    /\ reqs[2].issuedAt - reqs[1].issuedAt > MinGap

\* C18: a successful response replaces the whole detection set: after it
\* the displayed set is exactly the response's detections, one label per
\* entry and none when the array is empty, and the frame drawing state is
\* untouched.
C18_SuccessReplacesWholeSet ==
    [][\A i \in 1..MaxReq :
           (mounted /\ Ends(i, "success"))
               => /\ detections' = reqs'[i].dets
                  /\ Len(Labels(detections')) = Len(reqs'[i].dets)
                  /\ UNCHANGED <<frameCountRef, surface, canvasSize,
                                 rafPending>>]_vars

\* an empty response arrived while a non-empty set was displayed
C18_Witness ==
    /\ mounted
    /\ Len(reqs) = 2
    /\ reqs[1].result = "success" /\ reqs[1].dets # <<>>
    /\ reqs[2].result = "success" /\ reqs[2].dets = <<>>
    /\ reqs[2].prev = 1 /\ shownReq = 2
    /\ detections = <<>>
    /\ Labels(detections) = <<>>

\* C19: each displayed detection is rendered as exactly one label
\* "{class}: {round(confidence*100)}%", in the order of the detections; class
\* "person" with confidence 0.87 renders "person: 87%".
C19_LabelFormat ==
    mounted =>
        LET ls == Labels(detections)
        IN  /\ Len(ls) = Len(detections)
            /\ \A k \in 1..Len(detections) :
                   /\ detections[k] = Person => ls[k] = "person: 87%"
                   /\ detections[k] = Cup => ls[k] = "cup: 51%"

C19_Witness ==
    /\ mounted
    /\ detections = <<Cup, Person>>
    /\ Labels(detections) = <<"cup: 51%", "person: 87%">>

\* C20: the drawing surface's dimensions follow the source's: every frame
\* drawn from a source whose dimensions are known is drawn on a surface of
\* those dimensions, also on the first frame after they changed.
C20_SurfaceFollowsSource ==
    (lastTick.drawn /\ lastTick.src # NoSize)
        => lastTick.canvas = lastTick.src

\* C22: each field has one writer. A display tick that does not sample
\* changes the frame counter and the surface and leaves detections, the
\* in-flight flag, the error and the last sample time alone; a step of a
\* request towards its completion changes detections, the flag and the
\* error and leaves the frame counter, the last sample time and the surface
\* alone.
C22_FieldsWrittenByOwner ==
    [][/\ (frameCountRef' # frameCountRef /\ ~lastTick'.attempted)
              => /\ UNCHANGED <<detections, isProcessing, error,
                                lastDetectionRef, reqs>>
                 /\ surface' = frameCountRef'
       /\ (\E i \in 1..Len(reqs) : reqs'[i].st # reqs[i].st)
              => UNCHANGED <<frameCountRef, lastDetectionRef, surface,
                             canvasSize>>]_vars

C22_Witness ==
    /\ lastTick.drawn /\ ~lastTick.attempted
    /\ lastTick.count > Stride
    /\ frameCountRef = lastTick.count
    /\ Len(reqs) = 1 /\ reqs[1].st = "done"
    /\ detections # <<>>
    /\ lastDetectionRef = reqs[1].issuedAt

\* C23: in the capture variant the last sample time changes only in the step
\* that issues a request, where it becomes the time of that step; it never
\* decreases; a processFrame call that returns at its guard leaves it alone.
C23_SampleTimeWrittenOnIssue ==
    [][/\ lastDetectionRef' >= lastDetectionRef
       /\ lastDetectionRef' # lastDetectionRef
              => /\ variant = "capture"
                 /\ Len(reqs') = Len(reqs) + 1
                 /\ reqs'[Len(reqs')].st = "fetch"
                 /\ reqs'[Len(reqs')].issuedAt = now
                 /\ lastDetectionRef' = now
       /\ (frameCountRef' # frameCountRef /\ lastTick'.attempted
                                          /\ Len(reqs') = Len(reqs))
              => lastDetectionRef' = lastDetectionRef]_vars

C23_Witness ==
    /\ variant = "capture"
    /\ ~canvasRef
    /\ lastTick.drawn /\ lastTick.attempted
    /\ lastTick.count = 2 * Stride
    /\ Len(reqs) = 1
    /\ lastDetectionRef = reqs[1].issuedAt
    /\ now > lastDetectionRef + MinGap

\* C24: in the remote-stream variant a timer tick that finds the image with
\* valid dimensions, no request in flight and no error set issues an
\* inference request.
C24_TickIssuesRequest ==
    [][(/\ variant = "remote"
        /\ mounted
        /\ nextFire' # nextFire
        /\ sourceSize # NoSize
        /\ error = NoError
        /\ Outstanding = {})
           => (/\ Len(reqs') = Len(reqs) + 1
               /\ reqs'[Len(reqs')].st = "fetch")]_vars

\* C25: in the remote-stream variant a timer tick that runs while the error
\* is set draws no frame and issues no request, and whenever a frame is
\* drawn or a request is issued the error is clear.
C25_NoSamplingWhileError ==
    [][variant = "remote" =>
           /\ (nextFire' # nextFire /\ error # NoError)
                  => UNCHANGED <<surface, canvasSize, isProcessing, reqs>>
           /\ (surface' # surface \/ Len(reqs') # Len(reqs))
                  => error = NoError]_vars

C25_Witness ==
    /\ variant = "remote"
    /\ mounted
    /\ sourceSize # NoSize
    /\ lastTick.err # NoError
    /\ error # NoError
    /\ reqs = <<>> /\ surface = 0

====
